---- MODULE Spec2Model ----
(***************************************************************************)
(* GeobufferWorkerSource: the load coalescer (loadData / _loadData /       *)
(* coalesce / removeSource), the conversion and indexing pipeline and the  *)
(* tile access layer (loadGeobufferTile, reloadTile).                      *)
(*                                                                         *)
(* The worker is single threaded: each message handler runs to completion, *)
(* so each handler is one action.  A handler is written as an operator on  *)
(* a record `w` holding the object's fields plus `log`, the sequence of    *)
(* observable events (callback invocations, pipeline runs, escaped         *)
(* exceptions) the handler has produced so far, in program order.          *)
(***************************************************************************)
EXTENDS Integers, Sequences, FiniteSets, TLC

\* ------------------------------------------------------------------ bounds
MaxLoads == 3      \* loadData messages sent to the worker source
MaxRemoves == 1    \* removeSource messages sent to the worker source
MaxTileSends == 3  \* loadTile calls on the source

\* ------------------------------------------------------------------ values
None == "none"     \* an absent property (undefined)

Sources == {"srcA", "srcB"}

\* Values of params.data.  "undefined" is a request without data; "text" is a
\* non-empty string; the "gb*" values are objects: two well formed feature
\* collections, one the codec cannot convert and one the indexer cannot index.
DataValues == {"undefined", "text", "gbOne", "gbTwo", "gbMalformed", "gbUnindexable"}

Truthy(data) == data # "undefined"

TypeOf(data) ==
    CASE data = "undefined" -> "undefined"
      [] data = "text" -> "string"
      [] OTHER -> "object"

\* params.geojsonVtOptions: None when the caller supplied no options object.
OptionValues == {None, "opts"}

LoadGeoJSONParameters == [source : Sources, data : DataValues, geojsonVtOptions : OptionValues]

\* The requests sent to the worker: every data value from source srcA with
\* options, a second source for the value whose outcome names the source, and
\* one request without an options object.
Requests ==
    {p \in LoadGeoJSONParameters :
        /\ p.source = "srcB" => p.data = "text"
        /\ p.geojsonVtOptions = None => (p.data = "gbOne" /\ p.source = "srcA")}

\* The requests of the tile specification: the two well formed collections and
\* a non-object value from either source.
TileRequests == {p \in Requests : p.data \in {"text", "gbOne", "gbTwo"} /\ p.geojsonVtOptions # None}

\* The requests of the life-cycle specification: a collection that is indexed
\* and a request without data.
LifeRequests ==
    {p \in Requests : p.data \in {"undefined", "gbOne"} /\ p.geojsonVtOptions # None}

\* The requests of the rebuild specification: two collections that are indexed,
\* one the indexer rejects and a request without data.
RebuildRequests ==
    {p \in Requests : p.data \in {"undefined", "gbOne", "gbTwo", "gbUnindexable"} /\ p.geojsonVtOptions # None}

TileKeys == {"z0", "z1"}
Uids == {1, 2}

\* ---------------------------------------------------------- callback values
\* The arguments of a Callback: (err, result).
NullErr == [kind |-> "null", source |-> None]
UndefinedErr == [kind |-> "undefined", source |-> None]
NotValidError(source) == [kind |-> "NotValidGeoJSON", source |-> source]
TypeErr == [kind |-> "TypeError", source |-> None]
IndexerErr == [kind |-> "IndexerError", source |-> None]

Abandoned == [err |-> NullErr, result |-> "abandoned"]
Success == [err |-> NullErr, result |-> "empty"]
NoArgs == [err |-> UndefinedErr, result |-> "undefined"]
Failure(err) == [err |-> err, result |-> "undefined"]
NoTile == [err |-> NullErr, result |-> "null"]
TileData == [err |-> NullErr, result |-> "tile"]

IsError(args) == args.err.kind \notin {"null", "undefined"}

\* ------------------------------------------------------------------ events
NoParams == [source |-> None, data |-> None, geojsonVtOptions |-> None]

CallEvent(id, args) == [ev |-> "callback", id |-> id, args |-> args, params |-> NoParams]
RunEvent(id, params) == [ev |-> "run", id |-> id, args |-> NoArgs, params |-> params]
AssertEvent == [ev |-> "assert", id |-> 0, args |-> NoArgs, params |-> NoParams]
ThrowEvent == [ev |-> "throw", id |-> 0, args |-> NoArgs, params |-> NoParams]
AckEvent == [ev |-> "ack", id |-> 0, args |-> NoArgs, params |-> NoParams]
TileEvent(route, args) == [ev |-> route, id |-> 0, args |-> args, params |-> NoParams]

Emit(w, e) == [w EXCEPT !.log = Append(@, e)]
Call(w, id, args) == Emit(w, CallEvent(id, args))

Range(seq) == {seq[i] : i \in DOMAIN seq}

\* The pipeline runs and the callback invocations among the events of a handler.
RunEvents(log) == SelectSeq(log, LAMBDA e : e.ev = "run")
Calls(log) == SelectSeq(log, LAMBDA e : e.ev = "callback")

\* ------------------------------------------------------ external libraries
\* convertGeobufferToVt(data, {maxZoom, tolerance, extent}) of the codec: it
\* fails (throws) on malformed input, otherwise returns the converted collection.
ConvertThrows(data) == data = "gbMalformed"

convertGeobufferToVt(data) ==
    CASE data = "gbOne" -> "vtOne"
      [] data = "gbTwo" -> "vtTwo"
      [] OTHER -> "vtUnindexable"

\* geojsonvt(converted, options) of the indexer: it throws on a collection it
\* cannot index, otherwise returns a new index object.
IndexerThrows(converted) == converted = "vtUnindexable"

geojsonvt(converted, options) == [features |-> converted, options |-> options]

NoIndex == [features |-> None, options |-> None]

\* GeobufferIndex.getTile(z, x, y): the index is sparse.
TilesOf(index) ==
    CASE index.features = "vtOne" -> {"z0"}
      [] index.features = "vtTwo" -> {"z0", "z1"}
      [] OTHER -> {}

getTile(index, key) == IF key \in TilesOf(index) THEN <<index.features, key>> ELSE <<>>

\* ------------------------------------------------------------- the pipeline
\* _loadData that empties the registry when it takes the request, before validation.
_loadData_ClearsEarly(w) ==
    IF w._pendingCallback = 0 \/ w._pendingLoadDataParams = NoParams
    THEN Emit(w, AssertEvent)
    ELSE LET callback == w._pendingCallback
             params == w._pendingLoadDataParams
             w1 == Emit([w EXCEPT !._pendingCallback = 0, !._pendingLoadDataParams = NoParams,
                                  !.loaded = {}],
                        RunEvent(callback, params))
             data == params.data
         IN  IF ~Truthy(data) THEN Call(w1, callback, NoArgs)
             ELSE IF TypeOf(data) # "object" THEN Call(w1, callback, Failure(NotValidError(params.source)))
             ELSE IF ConvertThrows(data) THEN Emit(w1, ThrowEvent)
             ELSE LET converted == convertGeobufferToVt(data)
                  IN  IF params.geojsonVtOptions = None THEN Call(w1, callback, Failure(TypeErr))
                      ELSE IF IndexerThrows(converted) THEN Call(w1, callback, Failure(IndexerErr))
                      ELSE Call([w1 EXCEPT !._geoJSONIndex = geojsonvt(converted, "preconverted")],
                                callback, Success)

\* _loadData that assigns the index before the indexer has finished, so that a
\* failed build leaves what was built so far.
_loadData_InstallsOnFailure(w) ==
    IF w._pendingCallback = 0 \/ w._pendingLoadDataParams = NoParams
    THEN Emit(w, AssertEvent)
    ELSE LET callback == w._pendingCallback
             params == w._pendingLoadDataParams
             w1 == Emit([w EXCEPT !._pendingCallback = 0, !._pendingLoadDataParams = NoParams],
                        RunEvent(callback, params))
             data == params.data
         IN  IF ~Truthy(data) THEN Call(w1, callback, NoArgs)
             ELSE IF TypeOf(data) # "object" THEN Call(w1, callback, Failure(NotValidError(params.source)))
             ELSE IF ConvertThrows(data) THEN Emit(w1, ThrowEvent)
             ELSE LET converted == convertGeobufferToVt(data)
                  IN  IF params.geojsonVtOptions = None THEN Call(w1, callback, Failure(TypeErr))
                      ELSE IF IndexerThrows(converted)
                      THEN Call([w1 EXCEPT !._geoJSONIndex = geojsonvt(converted, "preconverted")],
                                callback, Failure(IndexerErr))
                      ELSE Call([w1 EXCEPT !._geoJSONIndex = geojsonvt(converted, "preconverted"),
                                           !.loaded = {}],
                                callback, Success)

\* _loadData that deletes the stored callback and leaves the stored parameters.
_loadData_KeepsParams(w) ==
    IF w._pendingCallback = 0 \/ w._pendingLoadDataParams = NoParams
    THEN Emit(w, AssertEvent)
    ELSE LET callback == w._pendingCallback
             params == w._pendingLoadDataParams
             w1 == Emit([w EXCEPT !._pendingCallback = 0], RunEvent(callback, params))
             data == params.data
         IN  IF ~Truthy(data) THEN Call(w1, callback, NoArgs)
             ELSE IF TypeOf(data) # "object" THEN Call(w1, callback, Failure(NotValidError(params.source)))
             ELSE IF ConvertThrows(data) THEN Emit(w1, ThrowEvent)
             ELSE LET converted == convertGeobufferToVt(data)
                  IN  IF params.geojsonVtOptions = None THEN Call(w1, callback, Failure(TypeErr))
                      ELSE IF IndexerThrows(converted) THEN Call(w1, callback, Failure(IndexerErr))
                      ELSE Call([w1 EXCEPT !._geoJSONIndex = geojsonvt(converted, "preconverted"),
                                           !.loaded = {}],
                                callback, Success)

\* _loadData(): consumes the pending request and runs it through validation,
\* conversion and indexing.  The codec is called outside the try block, so an
\* exception of the codec leaves the method; the options write and the indexer
\* are inside it.
_loadData(w) ==
    IF w._pendingCallback = 0 \/ w._pendingLoadDataParams = NoParams
    THEN Emit(w, AssertEvent)
    ELSE LET callback == w._pendingCallback
             params == w._pendingLoadDataParams
             w1 == Emit([w EXCEPT !._pendingCallback = 0, !._pendingLoadDataParams = NoParams],
                        RunEvent(callback, params))
             data == params.data
         IN  IF ~Truthy(data) THEN Call(w1, callback, NoArgs)
             ELSE IF TypeOf(data) # "object" THEN Call(w1, callback, Failure(NotValidError(params.source)))
             ELSE IF ConvertThrows(data) THEN Emit(w1, ThrowEvent)
             ELSE LET converted == convertGeobufferToVt(data)
                  IN  IF params.geojsonVtOptions = None THEN Call(w1, callback, Failure(TypeErr))
                      ELSE IF IndexerThrows(converted) THEN Call(w1, callback, Failure(IndexerErr))
                      ELSE Call([w1 EXCEPT !._geoJSONIndex = geojsonvt(converted, "preconverted"),
                                           !.loaded = {}],
                                callback, Success)

\* ------------------------------------------------------------ the coalescer
\* loadData without the state test: every request is run at once.
loadData_RunsAlways(w, params, callback) ==
    LET w1 == IF w._pendingCallback # 0 THEN Call(w, w._pendingCallback, Abandoned) ELSE w
        w2 == [w1 EXCEPT !._pendingCallback = callback, !._pendingLoadDataParams = params]
    IN  _loadData([w2 EXCEPT !._state = "Coalescing"])

\* loadData that replaces the pending pair without answering the previous callback.
loadData_NoAbandon(w, params, callback) ==
    LET w2 == [w EXCEPT !._pendingCallback = callback, !._pendingLoadDataParams = params]
    IN  IF w2._state # None /\ w2._state # "Idle"
        THEN [w2 EXCEPT !._state = "NeedsLoadData"]
        ELSE _loadData([w2 EXCEPT !._state = "Coalescing"])

\* loadData that stores the new callback before it answers the pending one.
loadData_ReplacesFirst(w, params, callback) ==
    LET w1 == [w EXCEPT !._pendingCallback = callback]
        w2 == IF w._pendingCallback # 0 THEN Call(w1, w1._pendingCallback, Abandoned) ELSE w1
        w3 == [w2 EXCEPT !._pendingLoadDataParams = params]
    IN  IF w3._state # None /\ w3._state # "Idle"
        THEN [w3 EXCEPT !._state = "NeedsLoadData"]
        ELSE _loadData([w3 EXCEPT !._state = "Coalescing"])

\* loadData that keeps the parameters already stored when a request is pending.
loadData_KeepsFirstParams(w, params, callback) ==
    LET w1 == IF w._pendingCallback # 0 THEN Call(w, w._pendingCallback, Abandoned) ELSE w
        w2 == [w1 EXCEPT !._pendingCallback = callback,
                         !._pendingLoadDataParams = IF w._pendingCallback # 0 THEN @ ELSE params]
    IN  IF w2._state # None /\ w2._state # "Idle"
        THEN [w2 EXCEPT !._state = "NeedsLoadData"]
        ELSE _loadData([w2 EXCEPT !._state = "Coalescing"])

loadData(w, params, callback) ==
    LET w1 == IF w._pendingCallback # 0 THEN Call(w, w._pendingCallback, Abandoned) ELSE w
        w2 == [w1 EXCEPT !._pendingCallback = callback, !._pendingLoadDataParams = params]
    IN  IF w2._state # None /\ w2._state # "Idle"
        THEN [w2 EXCEPT !._state = "NeedsLoadData"]
        ELSE _loadData([w2 EXCEPT !._state = "Coalescing"])

\* coalesce that forgets the queued request.
coalesce_DropsQueued(w) ==
    IF w._state = "Coalescing" THEN [w EXCEPT !._state = "Idle"]
    ELSE IF w._state = "NeedsLoadData" THEN [w EXCEPT !._state = "Idle"]
    ELSE w

\* coalesce that starts a run whenever the worker is not Idle.
coalesce_RunsWhenBusy(w) ==
    IF w._state = "Coalescing" \/ w._state = "NeedsLoadData"
    THEN _loadData([w EXCEPT !._state = "Coalescing"])
    ELSE w

coalesce(w) ==
    IF w._state = "Coalescing" THEN [w EXCEPT !._state = "Idle"]
    ELSE IF w._state = "NeedsLoadData" THEN _loadData([w EXCEPT !._state = "Coalescing"])
    ELSE w

\* removeSource that acknowledges before it answers the pending callback.
removeSource_AckFirst(w) ==
    LET w1 == Emit(w, AckEvent)
    IN  IF w._pendingCallback # 0 THEN Call(w1, w._pendingCallback, Abandoned) ELSE w1

\* removeSource that also drops the index and the registry of the source.
removeSource_DropsIndex(w) ==
    LET w1 == IF w._pendingCallback # 0 THEN Call(w, w._pendingCallback, Abandoned) ELSE w
    IN  Emit([w1 EXCEPT !._geoJSONIndex = NoIndex, !.loaded = {}], AckEvent)

removeSource(w) ==
    LET w1 == IF w._pendingCallback # 0 THEN Call(w, w._pendingCallback, Abandoned) ELSE w
    IN  Emit(w1, AckEvent)

\* --------------------------------------------------------- tile access layer
\* loadGeobufferTile that looks the tile up without testing for an index.
loadGeobufferTile_NoIndexTest(w, key) ==
    IF getTile(w._geoJSONIndex, key) = <<>> /\ w._geoJSONIndex # NoIndex THEN NoTile
    ELSE TileData

loadGeobufferTile(w, key) ==
    IF w._geoJSONIndex = NoIndex THEN NoTile
    ELSE IF getTile(w._geoJSONIndex, key) = <<>> THEN NoTile
    ELSE TileData

\* The inherited VectorTileWorkerSource.loadTile: loads the tile's vector data
\* and registers the tile as loaded when there is data.
loadTile(w, uid, key) ==
    LET response == loadGeobufferTile(w, key)
    IN  IF response = NoTile THEN Emit(w, TileEvent("loadTile", NoTile))
        ELSE Emit([w EXCEPT !.loaded = @ \cup {uid}], TileEvent("loadTile", TileData))

\* The inherited VectorTileWorkerSource.reloadTile: reparses the registered tile.
superReloadTile(w, uid, key) == Emit(w, TileEvent("reloadTile", TileData))

\* reloadTile that always takes the inherited reload path.
reloadTile_AlwaysReloads(w, uid, key) == superReloadTile(w, uid, key)

reloadTile(w, uid, key) ==
    IF uid \in w.loaded THEN superReloadTile(w, uid, key) ELSE loadTile(w, uid, key)

\* ----------------------------------------------------- the source (main thread)
\* GeobufferSource: the fields the load protocol uses.  `sent` and `log` collect
\* what a method sends and does, in program order.
NoSource == [_data |-> None, _removed |-> FALSE, _loaded |-> FALSE, workerID |-> None,
             nSent |-> 0, sent |-> <<>>, log |-> <<>>]

Workers == {"worker0", "worker1"}

Message(type, id, params, target) == [type |-> type, id |-> id, params |-> params, target |-> target]

SendEvent(type, target) == [ev |-> "send", type |-> type, id |-> 0, target |-> target, err |-> NullErr]
SetLoadedEvent == [ev |-> "loaded", type |-> None, id |-> 0, target |-> None, err |-> NullErr]
LoadCallbackEvent(id, err) == [ev |-> "callback", type |-> None, id |-> id, target |-> None, err |-> err]

\* dispatcher.send(type, data, callback, targetID): posts the message to the
\* target worker, or to a worker it picks when no target is given, and
\* returns the id of that worker.
send(src, type, id, params, targetID, pick) ==
    LET target == IF targetID = None THEN pick ELSE targetID
    IN  [src EXCEPT !.sent = Append(@, Message(type, id, params, target)),
                    !.log = Append(@, SendEvent(type, target))]

\* _updateWorkerData(callback): sends 'loadData' with the source's data; the
\* callback of this call is identified by the number of the call.
_updateWorkerData(src, pick) ==
    LET options == [source |-> "srcA", data |-> src._data, geojsonVtOptions |-> "opts"]
        id == src.nSent + 1
        s1 == send(src, "loadData", id, options, src.workerID, pick)
    IN  [s1 EXCEPT !.workerID = s1.sent[Len(s1.sent)].target, !.nSent = id]

\* The response handler that ignores neither removal nor abandonment.
loadDataResponse_NoFilter(src, id, args) ==
    LET s1 == [src EXCEPT !._loaded = TRUE, !.log = Append(@, SetLoadedEvent)]
        s2 == send(s1, "coalesce", 0, NoParams, s1.workerID, s1.workerID)
    IN  [s2 EXCEPT !.log = Append(@, LoadCallbackEvent(id, args.err))]

\* The response handler of _updateWorkerData: (err, result) => { ... }.
loadDataResponse(src, id, args) ==
    IF src._removed \/ args.result = "abandoned" THEN src
    ELSE LET s1 == [src EXCEPT !._loaded = TRUE, !.log = Append(@, SetLoadedEvent)]
             s2 == send(s1, "coalesce", 0, NoParams, s1.workerID, s1.workerID)
         IN  [s2 EXCEPT !.log = Append(@, LoadCallbackEvent(id, args.err))]

onRemove(src, pick) ==
    send([src EXCEPT !._removed = TRUE], "removeSource", 0, NoParams, src.workerID, pick)

\* ------------------------------------------------- the source's tile loading
Tiles == {"tileA", "tileB"}

\* A Tile as the source sees it: workerID is unset until the first loadTile.
NewTile == [workerID |-> None, aborted |-> FALSE]

\* The response of the worker to a tile message: (err, data).
TileErr == [kind |-> "TileError", source |-> None]
TileOutcomes == {NullErr, TileErr}

\* A tile message in flight with the closure of its callback; with `err`, the
\* response it was answered with.
TileCall(tile, message, target) == [tile |-> tile, message |-> message, target |-> target, err |-> NullErr]
NoTileCall == [tile |-> None, message |-> None, target |-> None, err |-> NullErr]

TileSideEvent(ev, err, reload) == [ev |-> ev, err |-> err, reload |-> reload]

\* dispatcher.send(type, params, callback, targetID) returns the id of the
\* worker it sent to: targetID when given, else one it picks.
sendTarget(targetID, pick) == IF targetID = None THEN pick ELSE targetID

\* The state a tile method works on: the tile, the messages it sent, its events.
TileCtx(tile) == [tile |-> tile, sent |-> <<>>, log |-> <<>>]

\* loadTile(tile, callback) of the source.
sourceLoadTile(ctx, id, workerID, pick) ==
    LET message == IF ctx.tile.workerID = None THEN "loadTile" ELSE "reloadTile"
        target == sendTarget(workerID, pick)
    IN  [ctx EXCEPT !.sent = Append(@, TileCall(id, message, target)),
                    !.tile.workerID = target]

\* The tile response handler that tests the error before the abort flag.
tileResponse_ErrorFirst(ctx, message, err) ==
    LET c1 == [ctx EXCEPT !.log = Append(@, TileSideEvent("unloadVectorData", NullErr, FALSE))]
    IN  IF err # NullErr
        THEN [c1 EXCEPT !.log = Append(@, TileSideEvent("callback", err, FALSE))]
        ELSE IF c1.tile.aborted
        THEN [c1 EXCEPT !.log = Append(@, TileSideEvent("callback", NullErr, FALSE))]
        ELSE [c1 EXCEPT !.log = @ \o <<TileSideEvent("loadVectorData", NullErr, message = "reloadTile"),
                                        TileSideEvent("callback", NullErr, FALSE)>>]

\* The response handler of loadTile: (err, data) => { ... }.
tileResponse(ctx, message, err) ==
    LET c1 == [ctx EXCEPT !.log = Append(@, TileSideEvent("unloadVectorData", NullErr, FALSE))]
    IN  IF c1.tile.aborted
        THEN [c1 EXCEPT !.log = Append(@, TileSideEvent("callback", NullErr, FALSE))]
        ELSE IF err # NullErr
        THEN [c1 EXCEPT !.log = Append(@, TileSideEvent("callback", err, FALSE))]
        ELSE [c1 EXCEPT !.log = @ \o <<TileSideEvent("loadVectorData", NullErr, message = "reloadTile"),
                                        TileSideEvent("callback", NullErr, FALSE)>>]

abortTile(ctx) == [ctx EXCEPT !.tile.aborted = TRUE]

\* -------------------------------------------------------------------- state
VARIABLES
    _state,                  \* SourceState, None while unset
    _pendingCallback,        \* id of the stored loadData callback, 0 when absent
    _pendingLoadDataParams,  \* the stored parameters, NoParams when absent
    _geoJSONIndex,           \* the current spatial index, NoIndex before the first build
    loaded,                  \* the loaded-tile registry: uids of the loaded tiles
    emitted,                 \* the events of the last handler, in program order
    lastOp,                  \* the last message handled
    cbLog,                   \* per loadData callback, the arguments of each invocation
    runs,                    \* ids of the requests passed to a pipeline run, in order
    lastSubmitted,           \* id and parameters of the latest loadData
    queued,                  \* ids stored as pending on arrival (not run at once)
    superseded,              \* ids replaced by a later loadData while pending
    coalesced,               \* a coalesce has been received
    coalescedSinceRun,       \* a coalesce has been received since the last run
    sinceCoalesce,           \* ids of the loadData calls since the last coalesce
    nRemoves,                \* removeSource messages received
    lastTile,                \* uid and tile key of the last handler's tile request
    source,                  \* the GeobufferSource on the main thread: its fields
    toWorker,                \* messages sent to the worker and not yet handled
    toMain,                  \* responses of the worker not yet handled on the main thread
    sourceEmitted,           \* the events of the last handler of the main thread
    tiles,                   \* the Tile objects of the source: workerID and aborted
    tileSends,               \* per tile, the loadTile calls made on the source
    tileCalls,               \* tile messages sent and not yet answered
    tileInput,               \* the response the last tile response handler was given
    tileEmitted              \* the events of the last tile method or response handler

worker == <<_state, _pendingCallback, _pendingLoadDataParams, _geoJSONIndex, loaded>>
history == <<emitted, lastOp, cbLog, runs, lastSubmitted, queued, superseded,
             coalesced, coalescedSinceRun, sinceCoalesce, nRemoves, lastTile>>
tileSide == <<tiles, tileSends, tileCalls, tileInput, tileEmitted>>
mainThread == <<source, toWorker, toMain, sourceEmitted, tileSide>>
vars == <<worker, history, mainThread>>

NoTileRequest == [uid |-> 0, key |-> None]

\* The object as the handlers see it, with an empty event log.
W == [_state |-> _state, _pendingCallback |-> _pendingCallback,
      _pendingLoadDataParams |-> _pendingLoadDataParams,
      _geoJSONIndex |-> _geoJSONIndex, loaded |-> loaded, log |-> <<>>]

RECURSIVE AddCalls(_, _)
AddCalls(cl, log) ==
    IF log = <<>> THEN cl
    ELSE AddCalls(IF Head(log).ev = "callback"
                  THEN [cl EXCEPT ![Head(log).id] = Append(@, Head(log).args)]
                  ELSE cl,
                  Tail(log))

RECURSIVE RunIds(_)
RunIds(log) ==
    IF log = <<>> THEN <<>>
    ELSE (IF Head(log).ev \in {"run", "assert"} THEN <<Head(log).id>> ELSE <<>>) \o RunIds(Tail(log))

HasRun(log) == RunIds(log) # <<>>

\* The handler returned (or threw) leaving the object as w2.
Commit(w2, op) ==
    /\ _state' = w2._state
    /\ _pendingCallback' = w2._pendingCallback
    /\ _pendingLoadDataParams' = w2._pendingLoadDataParams
    /\ _geoJSONIndex' = w2._geoJSONIndex
    /\ loaded' = w2.loaded
    /\ emitted' = w2.log
    /\ lastOp' = op
    /\ cbLog' = AddCalls(cbLog, w2.log)
    /\ runs' = runs \o RunIds(w2.log)
    /\ coalescedSinceRun' = IF HasRun(w2.log) THEN FALSE
                            ELSE (coalescedSinceRun \/ op = "coalesce")

InitWorker ==
    /\ _state = None
    /\ _pendingCallback = 0
    /\ _pendingLoadDataParams = NoParams
    /\ _geoJSONIndex = NoIndex
    /\ loaded = {}
    /\ emitted = <<>>
    /\ lastOp = None
    /\ cbLog = [i \in 1..MaxLoads |-> <<>>]
    /\ runs = <<>>
    /\ lastSubmitted = [id |-> 0, params |-> NoParams]
    /\ queued = {}
    /\ superseded = {}
    /\ coalesced = FALSE
    /\ coalescedSinceRun = FALSE
    /\ sinceCoalesce = <<>>
    /\ nRemoves = 0
    /\ lastTile = NoTileRequest

InitTiles ==
    /\ tiles = [t \in Tiles |-> NewTile]
    /\ tileSends = [t \in Tiles |-> 0]
    /\ tileCalls = <<>>
    /\ tileInput = NoTileCall
    /\ tileEmitted = <<>>

\* The worker source alone: its messages come from an unconstrained caller.
Init ==
    /\ InitWorker
    /\ InitTiles
    /\ source = NoSource
    /\ toWorker = <<>>
    /\ toMain = <<>>
    /\ sourceEmitted = <<>>

\* 'loadData' message: each call brings its own callback, identified by its number.
LoadDataFrom(requests) ==
    \E params \in requests :
        /\ lastSubmitted.id < MaxLoads
        /\ LET id == lastSubmitted.id + 1
               w2 == loadData(W, params, id)
           IN  /\ Commit(w2, "loadData")
               /\ lastSubmitted' = [id |-> id, params |-> params]
               /\ queued' = IF w2._pendingCallback = id THEN queued \cup {id} ELSE queued
               /\ superseded' = IF _pendingCallback # 0 THEN superseded \cup {_pendingCallback}
                                ELSE superseded
               /\ sinceCoalesce' = Append(sinceCoalesce, id)
        /\ lastTile' = NoTileRequest
        /\ UNCHANGED <<coalesced, nRemoves>>

LoadData == LoadDataFrom(Requests) /\ UNCHANGED mainThread

\* 'coalesce' message.
CoalesceStep ==
    /\ Commit(coalesce(W), "coalesce")
    /\ coalesced' = TRUE
    /\ sinceCoalesce' = <<>>
    /\ lastTile' = NoTileRequest
    /\ UNCHANGED <<lastSubmitted, queued, superseded, nRemoves>>

Coalesce == CoalesceStep /\ UNCHANGED mainThread

\* 'removeSource' message.
RemoveSourceStep ==
    /\ nRemoves < MaxRemoves
    /\ Commit(removeSource(W), "removeSource")
    /\ nRemoves' = nRemoves + 1
    /\ lastTile' = NoTileRequest
    /\ UNCHANGED <<lastSubmitted, queued, superseded, coalesced, sinceCoalesce>>

RemoveSource == RemoveSourceStep /\ UNCHANGED mainThread

\* 'loadTile' message.
LoadTile ==
    \E uid \in Uids, key \in TileKeys :
        /\ Commit(loadTile(W, uid, key), "loadTile")
        /\ lastTile' = [uid |-> uid, key |-> key]
        /\ UNCHANGED <<lastSubmitted, queued, superseded, coalesced, sinceCoalesce, nRemoves>>
        /\ UNCHANGED mainThread

\* 'reloadTile' message.
ReloadTile ==
    \E uid \in Uids, key \in TileKeys :
        /\ Commit(reloadTile(W, uid, key), "reloadTile")
        /\ lastTile' = [uid |-> uid, key |-> key]
        /\ UNCHANGED <<lastSubmitted, queued, superseded, coalesced, sinceCoalesce, nRemoves>>
        /\ UNCHANGED mainThread

\* The coalescer and the pipeline under every kind of request.
Next == LoadData \/ Coalesce \/ RemoveSource

Spec == Init /\ [][Next]_vars

\* The worker source with its tile messages while the source is alive, under
\* the requests that decide what the index and the registry hold.
LoadIndexData == LoadDataFrom(TileRequests) /\ UNCHANGED mainThread

NextTiles == LoadIndexData \/ Coalesce \/ LoadTile \/ ReloadTile

SpecTiles == Init /\ [][NextTiles]_vars

\* Index rebuilds interleaved with tile reads, under requests that rebuild the
\* index, fail in the indexer or carry no data.
LoadRebuildData == LoadDataFrom(RebuildRequests) /\ UNCHANGED mainThread

NextRebuild == LoadRebuildData \/ Coalesce \/ LoadTile \/ ReloadTile

SpecRebuild == Init /\ [][NextRebuild]_vars

\* The whole life of the worker source, removal included, with tiles loaded.
LoadLifeData == LoadDataFrom(LifeRequests) /\ UNCHANGED mainThread

NextLife == LoadLifeData \/ Coalesce \/ RemoveSource \/ LoadTile

SpecLife == Init /\ [][NextLife]_vars

\* ------------------------------------------------------------ load protocol
\* The source and its worker source joined by the two message queues of the
\* actor: messages and responses are handled in the order they were posted.
InitProtocol ==
    /\ InitWorker
    /\ InitTiles
    /\ \E data \in DataValues : source = [NoSource EXCEPT !._data = data]
    /\ toWorker = <<>>
    /\ toMain = <<>>
    /\ sourceEmitted = <<>>

\* A method of the source returned leaving the object as s2.
CommitSource(s2) ==
    /\ source' = [s2 EXCEPT !.sent = <<>>, !.log = <<>>]
    /\ toWorker' = toWorker \o s2.sent
    /\ sourceEmitted' = s2.log
    /\ UNCHANGED tileSide

\* load(): the source (re)sends its data to the worker.
SourceLoad ==
    /\ ~source._removed
    /\ source.nSent < MaxLoads
    /\ \E pick \in Workers : CommitSource(_updateWorkerData(source, pick))
    /\ UNCHANGED <<worker, history, toMain>>

\* onRemove(): the source is removed from the map.
SourceRemove ==
    /\ ~source._removed
    /\ \E pick \in Workers : CommitSource(onRemove(source, pick))
    /\ UNCHANGED <<worker, history, toMain>>

\* A loadData response reaches the main thread.
SourceResponse ==
    /\ toMain # <<>>
    /\ CommitSource(loadDataResponse(source, Head(toMain).id, Head(toMain).args))
    /\ toMain' = Tail(toMain)
    /\ UNCHANGED <<worker, history>>

\* The responses a worker handler posts: one per callback it invoked.
Responses(log) == [i \in 1..Len(Calls(log)) |-> [id |-> Calls(log)[i].id, args |-> Calls(log)[i].args]]

\* The worker handles the next message posted to it.
Deliver(type) ==
    /\ toWorker # <<>>
    /\ Head(toWorker).type = type
    /\ toWorker' = Tail(toWorker)
    /\ toMain' = toMain \o Responses(emitted')
    /\ UNCHANGED <<source, sourceEmitted, tileSide>>

WorkerLoadData ==
    /\ toWorker # <<>>
    /\ Head(toWorker).type = "loadData"
    /\ LoadDataFrom({Head(toWorker).params})
    /\ Deliver("loadData")

WorkerCoalesce == CoalesceStep /\ Deliver("coalesce")

WorkerRemoveSource == RemoveSourceStep /\ Deliver("removeSource")

NextProtocol ==
    \/ SourceLoad
    \/ SourceRemove
    \/ SourceResponse
    \/ WorkerLoadData
    \/ WorkerCoalesce
    \/ WorkerRemoveSource

SpecProtocol == InitProtocol /\ [][NextProtocol]_vars

\* ------------------------------------------------------ source tile loading
\* A tile method or handler returned leaving its context as c2.
CommitTile(id, c2) ==
    /\ tiles' = [tiles EXCEPT ![id] = c2.tile]
    /\ tileEmitted' = c2.log

TotalTileSends == tileSends["tileA"] + tileSends["tileB"]

\* loadTile(tile, callback) is called on the source.
SourceLoadTile ==
    \E id \in Tiles, pick \in Workers :
        /\ TotalTileSends < MaxTileSends
        /\ LET c2 == sourceLoadTile(TileCtx(tiles[id]), id, source.workerID, pick)
           IN  /\ CommitTile(id, c2)
               /\ tileCalls' = tileCalls \o c2.sent
        /\ tileSends' = [tileSends EXCEPT ![id] = @ + 1]
        /\ tileInput' = NoTileCall
        /\ UNCHANGED <<worker, history, source, toWorker, toMain, sourceEmitted>>

\* abortTile(tile) is called on the source.
SourceAbortTile ==
    \E id \in Tiles :
        /\ ~tiles[id].aborted
        /\ CommitTile(id, abortTile(TileCtx(tiles[id])))
        /\ tileInput' = NoTileCall
        /\ UNCHANGED <<worker, history, source, toWorker, toMain, sourceEmitted, tileSends, tileCalls>>

\* The worker's response to a tile message reaches the source.
SourceTileResponse ==
    \E i \in DOMAIN tileCalls, err \in TileOutcomes :
        LET call == tileCalls[i]
        IN  /\ CommitTile(call.tile, tileResponse(TileCtx(tiles[call.tile]), call.message, err))
            /\ tileCalls' = SubSeq(tileCalls, 1, i - 1) \o SubSeq(tileCalls, i + 1, Len(tileCalls))
            /\ tileInput' = [call EXCEPT !.err = err]
            /\ UNCHANGED <<worker, history, source, toWorker, toMain, sourceEmitted, tileSends>>

NextSourceTiles == SourceLoadTile \/ SourceAbortTile \/ SourceTileResponse

SpecSourceTiles == Init /\ [][NextSourceTiles]_vars

TypeOK ==
    /\ _state \in {None, "Idle", "Coalescing", "NeedsLoadData"}
    /\ _pendingCallback \in 0..MaxLoads
    /\ loaded \subseteq Uids

\* ------------------------------------------------------------------ helpers
Submitted == 1..lastSubmitted.id

\* ------------------------------------------------------------------- claims
\* C1: every callback passed to loadData is invoked exactly once (success,
\* error or abandonment): never twice, and never zero times once the request
\* is no longer the stored pending one.
C1_ExactlyOnce ==
    \A id \in Submitted :
        /\ Len(cbLog[id]) <= 1
        /\ Len(cbLog[id]) = 0 => _pendingCallback = id

\* C2: at most one (re)index is in flight: while no coalesce has been received
\* any number N >= 1 of loadData calls has caused exactly one pipeline run, a
\* handler starts at most one run, and every run after the first has a
\* coalesce call between it and the run before.
C2_SingleFlight ==
    /\ [](~coalesced /\ lastSubmitted.id >= 1 => Len(runs) = 1)
    /\ [][/\ Len(runs') <= Len(runs) + 1
          /\ Len(runs') > Len(runs) =>
                (Len(runs) = 0 \/ coalescedSinceRun \/ lastOp' = "coalesce")]_vars

C2_Witness ==
    /\ lastSubmitted.id = MaxLoads
    /\ lastOp = "coalesce"
    /\ Len(runs) = 2
    /\ superseded # {}

\* C3: the coalescer follows the transition table, an unset state behaving as
\* Idle: loadData in Idle runs the pipeline and goes to Coalescing, loadData in
\* Coalescing or NeedsLoadData goes to NeedsLoadData without a run, coalesce in
\* Coalescing goes to Idle without a run, coalesce in NeedsLoadData runs the
\* pipeline and goes to Coalescing; no other state value is reached.
C3_TransitionTable ==
    /\ [](_state \in {None, "Idle", "Coalescing", "NeedsLoadData"})
    /\ [][/\ (lastOp' = "loadData" /\ _state \in {None, "Idle"}) =>
                (_state' = "Coalescing" /\ Len(runs') = Len(runs) + 1)
          /\ (lastOp' = "loadData" /\ _state \in {"Coalescing", "NeedsLoadData"}) =>
                (_state' = "NeedsLoadData" /\ runs' = runs)
          /\ (lastOp' = "coalesce" /\ _state = "Coalescing") =>
                (_state' = "Idle" /\ runs' = runs)
          /\ (lastOp' = "coalesce" /\ _state = "NeedsLoadData") =>
                (_state' = "Coalescing" /\ Len(runs') = Len(runs) + 1)
          /\ _state' = None => _state = None]_vars

C3_Witness ==
    /\ _state = "Idle"
    /\ lastOp = "coalesce"
    /\ Len(runs) = 2
    /\ queued # {}

\* C4 as stated: when loadData(A) is followed by loadData(B) with no coalesce
\* in between, A's callback is answered with {abandoned: true} and A is not
\* the request that is indexed.
C4_FirstAbandoned ==
    \A i \in 1..(Len(sinceCoalesce) - 1) :
        LET A == sinceCoalesce[i]
        IN  Abandoned \in Range(cbLog[A]) /\ A \notin Range(runs)

\* C4 amended: when loadData(A) is followed by loadData(B) with no coalesce in
\* between, B is stored as pending (it is the stored request for as long as it
\* is the latest); if A was stored as pending on arrival it is answered with
\* {abandoned: true} and is never passed to a pipeline run; if A arrived in
\* Idle it was run at once and its callback is not answered with an
\* abandonment.
C4_SupersededOrRun ==
    \A i \in 1..(Len(sinceCoalesce) - 1) :
        LET A == sinceCoalesce[i]
            B == sinceCoalesce[i + 1]
        IN  /\ B \in queued
            /\ B = lastSubmitted.id =>
                  (_pendingCallback = B /\ _pendingLoadDataParams = lastSubmitted.params)
            /\ A \in queued => (Abandoned \in Range(cbLog[A]) /\ A \notin Range(runs))
            /\ A \notin queued => (A \in Range(runs) /\ Abandoned \notin Range(cbLog[A]))

C4_Witness ==
    /\ Len(sinceCoalesce) = 3
    /\ sinceCoalesce[1] \notin queued
    /\ sinceCoalesce[2] \in queued

\* C5: a loadData that arrives while an earlier request is pending answers the
\* earlier callback with (null, {abandoned: true}) before it stores the new
\* pair, and the superseded request is never passed to a pipeline run.
C5_SupersededAbandoned ==
    /\ [](\A id \in superseded :
            /\ Abandoned \in Range(cbLog[id])
            /\ id \notin Range(runs)
            /\ _pendingCallback # id)
    /\ [][(lastOp' = "loadData" /\ _pendingCallback # 0) =>
            /\ emitted' # <<>>
            /\ emitted'[1] = CallEvent(_pendingCallback, Abandoned)
            /\ cbLog'[lastSubmitted'.id] = <<>>
            /\ _pendingCallback' = lastSubmitted'.id
            /\ _pendingLoadDataParams' = lastSubmitted'.params]_vars

C5_Witness ==
    /\ superseded # {}
    /\ lastOp = "coalesce"
    /\ Len(runs) = 2

\* C6: the pipeline run that coalesce triggers in NeedsLoadData uses the
\* parameters and the callback of the most recently submitted loadData.
C6_LatestRequestRuns ==
    (lastOp = "coalesce" /\ HasRun(emitted)) =>
        /\ RunEvents(emitted) = <<RunEvent(lastSubmitted.id, lastSubmitted.params)>>
        /\ \A c \in Range(Calls(emitted)) : c.id = lastSubmitted.id

C6_Witness ==
    /\ lastOp = "coalesce"
    /\ HasRun(emitted)
    /\ Calls(emitted) # <<>>
    /\ superseded # {}
    /\ lastSubmitted.id = MaxLoads

\* C7: removeSource with a request pending answers the pending callback with
\* {abandoned: true} and then acknowledges, so that the stored callback is not
\* left un-invoked; with nothing pending it only acknowledges.
C7_RemoveAbandonsPending ==
    [][lastOp' = "removeSource" =>
         IF _pendingCallback # 0
         THEN /\ emitted' = <<CallEvent(_pendingCallback, Abandoned), AckEvent>>
              /\ _pendingCallback' # 0 => cbLog'[_pendingCallback'] # <<>>
         ELSE /\ emitted' = <<AckEvent>>
              /\ cbLog' = cbLog
              /\ _pendingCallback' = 0]_vars

C7_Witness ==
    /\ lastOp = "removeSource"
    /\ _pendingCallback # 0
    /\ Len(emitted) = 2

\* C8: a failure of the conversion step or of the index build is passed to the
\* request's callback as an error and leaves the coalescer in Coalescing with
\* no pending request.
C8_FailureReported ==
    \A r \in Range(RunEvents(emitted)) :
        r.params.data \in {"gbMalformed", "gbUnindexable"} =>
            /\ \E c \in Range(Calls(emitted)) : c.id = r.id /\ IsError(c.args)
            /\ _state = "Coalescing"
            /\ _pendingCallback = 0

\* C9: a pipeline run on data that is present but not an object passes an
\* error naming the requesting source to the callback and leaves the index and
\* the loaded-tile registry as they were.
C9_NotAnObject ==
    [][\A r \in Range(RunEvents(emitted')) :
          (Truthy(r.params.data) /\ TypeOf(r.params.data) # "object") =>
              /\ Calls(emitted') = <<CallEvent(r.id, Failure(NotValidError(r.params.source)))>>
              /\ r.params = lastSubmitted'.params
              /\ _geoJSONIndex' = _geoJSONIndex
              /\ loaded' = loaded]_vars

C9_Witness ==
    /\ \E r \in Range(RunEvents(emitted)) : r.params.data = "text" /\ r.params.source = "srcB"
    /\ loaded # {}
    /\ _geoJSONIndex # NoIndex

\* C10: a pipeline run on a request without data is rejected: the callback
\* receives an error naming the requesting source.
C10_NoDataRejected ==
    \A r \in Range(RunEvents(emitted)) :
        ~Truthy(r.params.data) =>
            \E c \in Range(Calls(emitted)) :
                /\ c.id = r.id
                /\ IsError(c.args)
                /\ c.args.err.source = r.params.source

\* The indexes the indexer returns: one per collection it can index.
CompleteIndexes ==
    {geojsonvt(convertGeobufferToVt(d), "preconverted") :
        d \in {x \in DataValues : TypeOf(x) = "object" /\ ~ConvertThrows(x)
                                  /\ ~IndexerThrows(convertGeobufferToVt(x))}}

\* The run of a handler's events that ended with a success result, if any.
SuccessRuns(log) ==
    SelectSeq(RunEvents(log), LAMBDA r : CallEvent(r.id, Success) \in Range(Calls(log)))

\* C11: the current index is absent exactly while no run has succeeded, and
\* otherwise is a complete index: a successful run installs the index built
\* from its request and empties the loaded-tile registry, every other run and
\* every other handler leaves the index alone (and a run that did not succeed
\* leaves the registry alone), so a tile read between runs sees the index of
\* the most recent successful run.
C11_IndexOfLastSuccess ==
    /\ [](/\ _geoJSONIndex \in CompleteIndexes \cup {NoIndex}
          /\ _geoJSONIndex = NoIndex <=> (\A id \in Submitted : Success \notin Range(cbLog[id])))
    /\ [][IF SuccessRuns(emitted') # <<>>
          THEN /\ _geoJSONIndex' =
                    geojsonvt(convertGeobufferToVt(SuccessRuns(emitted')[1].params.data), "preconverted")
               /\ loaded' = {}
          ELSE /\ _geoJSONIndex' = _geoJSONIndex
               /\ lastOp' \in {"loadData", "coalesce"} => loaded' = loaded]_vars

C11_Witness ==
    /\ SuccessRuns(emitted) # <<>>
    /\ _geoJSONIndex.features = "vtTwo"
    /\ \E id \in Submitted :
          /\ Failure(IndexerErr) \in Range(cbLog[id])
          /\ \E earlier \in 1..(id - 1) : Success \in Range(cbLog[earlier])

\* C12: the tile loader answers "no data" (callback(null, null)) when no index
\* has been built and when the index has no entry for the requested key, and
\* answers with a tile exactly when an index exists and holds the key.
C12_SparseLookup ==
    (lastOp \in {"loadTile", "reloadTile"} /\ emitted[1].ev = "loadTile") =>
        emitted = <<TileEvent("loadTile",
                              IF _geoJSONIndex # NoIndex /\ lastTile.key \in TilesOf(_geoJSONIndex)
                              THEN TileData ELSE NoTile)>>

C12_Witness ==
    /\ lastOp = "loadTile"
    /\ _geoJSONIndex # NoIndex
    /\ lastTile.key \notin TilesOf(_geoJSONIndex)
    /\ emitted = <<TileEvent("loadTile", NoTile)>>

\* C13: reloadTile for a uid in the loaded-tile registry takes the inherited
\* reload path and for any other uid takes loadTile; a successful rebuild
\* empties the registry, so every uid registered before it takes loadTile
\* until it is loaded again.
C13_ReloadRouting ==
    [][/\ lastOp' = "reloadTile" =>
             emitted'[1].ev = (IF lastTile'.uid \in loaded THEN "reloadTile" ELSE "loadTile")
       /\ SuccessRuns(emitted') # <<>> => loaded' = {}
       /\ (lastOp' \in {"loadTile", "reloadTile"} /\ emitted'[1].ev = "loadTile") =>
             loaded' = (IF emitted'[1].args = TileData THEN loaded \cup {lastTile'.uid} ELSE loaded)
       /\ (lastOp' = "reloadTile" /\ emitted'[1].ev = "reloadTile") => loaded' = loaded]_vars

C13_Witness ==
    /\ lastOp = "reloadTile"
    /\ emitted[1].ev = "loadTile"
    /\ loaded = {lastTile.uid}
    /\ Len(runs) = 2

\* C15: the stored request and the stored callback are present together or
\* absent together, and a pipeline run takes both out in the same step, before
\* it invokes the callback it took.
C15_PendingPair ==
    /\ [](_pendingCallback = 0 <=> _pendingLoadDataParams = NoParams)
    /\ [][\A i \in DOMAIN emitted' :
            emitted'[i].ev = "run" =>
                /\ _pendingCallback' = 0
                /\ _pendingLoadDataParams' = NoParams
                /\ emitted'[i].id # 0
                /\ emitted'[i].params # NoParams
                /\ \A j \in DOMAIN emitted' :
                      (emitted'[j].ev = "callback" /\ emitted'[j].id = emitted'[i].id) => j > i]_vars

C15_Witness ==
    /\ lastOp = "coalesce"
    /\ Len(emitted) = 2
    /\ emitted[1].ev = "run"
    /\ emitted[2].ev = "callback"
    /\ _pendingCallback = 0

\* C17: a request and its callback are stored exactly while the state is
\* NeedsLoadData, so _loadData is never entered without them: its assert(false)
\* branch is not reached by any sequence of loadData, coalesce and removeSource.
C17_PendingIffNeedsLoadData ==
    /\ _pendingCallback # 0 <=> _state = "NeedsLoadData"
    /\ _pendingLoadDataParams # NoParams <=> _state = "NeedsLoadData"
    /\ \A i \in DOMAIN emitted : emitted[i].ev # "assert"

C17_Witness ==
    /\ lastOp = "coalesce"
    /\ HasRun(emitted)
    /\ nRemoves = 1
    /\ Len(cbLog[lastSubmitted.id]) = 2

\* C18: coalesce in Idle (or before any loadData) changes nothing and invokes
\* no callback; coalesce in Coalescing changes the state only; removeSource
\* leaves the coalescer state, the index and the loaded-tile registry as they
\* were.
C18_Frame ==
    [][/\ (lastOp' = "coalesce" /\ _state \in {None, "Idle"}) =>
              (UNCHANGED worker /\ emitted' = <<>> /\ cbLog' = cbLog)
       /\ (lastOp' = "coalesce" /\ _state = "Coalescing") =>
              /\ UNCHANGED <<_pendingCallback, _pendingLoadDataParams, _geoJSONIndex, loaded>>
              /\ emitted' = <<>>
       /\ lastOp' = "removeSource" => UNCHANGED <<_state, _geoJSONIndex, loaded>>]_vars

C18_Witness ==
    /\ lastOp = "removeSource"
    /\ _state = "Idle"
    /\ coalescedSinceRun
    /\ loaded # {}
    /\ _geoJSONIndex # NoIndex

\* No message and no response is in flight between the source and its worker.
Quiet == toWorker = <<>> /\ toMain = <<>>

\* C14: under the protocol of the source (one coalesce after each loadData
\* response that is not abandoned, source not removed), once every message of
\* a burst of loadData requests has been handled the worker has caught up: it
\* is Idle with nothing pending and its last pipeline run was on the last
\* request sent.
C14_CatchesUp ==
    (Quiet /\ ~source._removed /\ source.nSent >= 1) =>
        /\ _state = "Idle"
        /\ _pendingCallback = 0
        /\ runs # <<>>
        /\ runs[Len(runs)] = source.nSent

\* C16: on the source, a loadData response that is abandoned or that arrives
\* after onRemove has no effect (no coalesce sent, _loaded not set, load
\* callback not invoked); every other response sets _loaded and sends exactly
\* one coalesce to the worker the loadData went to, before the load callback
\* is invoked with the response's error.
C16_ResponseHandling ==
    /\ [](\A i \in DOMAIN toWorker :
            toWorker[i].type \in {"loadData", "coalesce"} =>
                (toWorker[i].target \in Workers /\ toWorker[i].target = source.workerID))
    /\ [][Len(toMain') < Len(toMain) =>
            LET response == Head(toMain)
            IN  IF source._removed \/ response.args.result = "abandoned"
                THEN /\ sourceEmitted' = <<>>
                     /\ toWorker' = toWorker
                     /\ source' = source
                ELSE /\ sourceEmitted' = <<SetLoadedEvent,
                                           SendEvent("coalesce", source.workerID),
                                           LoadCallbackEvent(response.id, response.args.err)>>
                     /\ toWorker' = Append(toWorker,
                                           Message("coalesce", 0, NoParams, source.workerID))
                     /\ source' = [source EXCEPT !._loaded = TRUE]]_vars

C16_Witness ==
    /\ Len(sourceEmitted) = 3
    /\ sourceEmitted[3] = LoadCallbackEvent(source.nSent, NotValidError("srcA"))
    /\ source.nSent = MaxLoads
    /\ source._loaded
    /\ \E id \in Submitted : Abandoned \in Range(cbLog[id])

\* C19: on the source, the first loadTile for a tile sends 'loadTile' and every
\* later one for that tile sends 'reloadTile'; the response handler unloads the
\* tile's vector data, then an aborted tile gets callback(null) without loading
\* vector data (whatever the response), a failed response gets callback(err),
\* and otherwise the data is loaded with the reload flag set exactly when the
\* message sent was 'reloadTile', followed by callback(null).
C19_TileMessages ==
    /\ [][\A id \in Tiles :
            tileSends'[id] = tileSends[id] + 1 =>
                /\ Len(tileCalls') = Len(tileCalls) + 1
                /\ tileCalls'[Len(tileCalls')].tile = id
                /\ tileCalls'[Len(tileCalls')].message =
                       IF tileSends[id] = 0 THEN "loadTile" ELSE "reloadTile"]_vars
    /\ [](tileInput # NoTileCall =>
            LET unload == TileSideEvent("unloadVectorData", NullErr, FALSE)
                done(err) == TileSideEvent("callback", err, FALSE)
                load == TileSideEvent("loadVectorData", NullErr, tileInput.message = "reloadTile")
            IN  tileEmitted =
                    IF tiles[tileInput.tile].aborted THEN <<unload, done(NullErr)>>
                    ELSE IF tileInput.err = TileErr THEN <<unload, done(TileErr)>>
                    ELSE <<unload, load, done(NullErr)>>)

\* A second loadTile of an unaborted tile was answered with data: it was sent
\* as 'reloadTile' and loaded with the reload flag; the other tile is aborted.
C19_Witness ==
    /\ tileInput.tile = "tileA"
    /\ tileInput.message = "reloadTile"
    /\ tileInput.err = NullErr
    /\ tileSends["tileA"] = 2
    /\ ~tiles["tileA"].aborted
    /\ Len(tileEmitted) = 3
    /\ tileEmitted[2].reload
    /\ tiles["tileB"].aborted
    /\ tileSends["tileB"] = 1

====
